---- MODULE Spec2Model ----
(***************************************************************************)
(* AcroForm field model of pdf-python: the field-tree flattener            *)
(* (walk_fields / flatten_all_fields), the name resolution of the fill     *)
(* loop and the typed value applier (fill_acroform.py).                    *)
(*                                                                         *)
(* Python strings and PDF names are sequences of one-character strings;    *)
(* a PDF name keeps its leading "/".  A PDF dictionary is a record; a key  *)
(* the dictionary does not hold is the value None of that record field.    *)
(***************************************************************************)
EXTENDS Integers, Sequences, FiniteSets, TLC

VARIABLES
    doc,        \* the PDF document: acro (has /AcroForm), need
                \* (/NeedAppearances), Fields, node table
    V,          \* node id -> stored value /V
    AS,         \* node id -> displayed state /AS
    pc,         \* position of the running operation
    fields,     \* the flattened list (fill: `fields`, flatten: the result)
    prevFlat,   \* the list returned by the previous flatten
    data,       \* the key/value batch, in insertion order
    idx,        \* number of keys of the batch already processed
    applied,    \* node the last iteration chose for its key (0: none)
    step,       \* resolution step that chose it (0: none matched)
    saves,      \* the save attempts made so far
    raised,     \* the exception that left the operation, or None
    lines,      \* what write_fillable_list collected and wrote to the keys file
    packets,    \* the XFA of the input PDF: template and datasets packets
    bindings,   \* field name -> bind/@ref, in insertion order
    som_paths,  \* field name -> SOM path, in insertion order
    datasets,   \* the datasets tree being filled and its data root
    call,       \* the arguments of the function called last
    ret         \* what that call returned

acroVars == <<doc, V, AS, fields, prevFlat, applied, step>>
listVars == <<lines>>
xfaVars == <<packets, bindings, som_paths, datasets>>
callVars == <<call, ret>>

vars == <<doc, V, AS, pc, fields, prevFlat, data, idx, applied, step, saves, raised,
          lines, packets, bindings, som_paths, datasets, call, ret>>

----------------------------------------------------------------------------
(* Bounds *)

MaxNodes == 3       \* nodes of a generated field tree
MaxWidgets == 2     \* widget kids of a generated button field
MaxKeys == 2        \* keys of a batch
MaxNames == 3       \* names of a candidate list, keys of an appearance dictionary
MaxElems == 4       \* elements of a datasets tree
MaxTags == 4        \* elements under the root of a generated template

----------------------------------------------------------------------------
(* Strings *)

None == "None"

RECURSIVE Concat(_)
\* list.extend over a sequence of lists
Concat(ss) == IF ss = <<>> THEN <<>> ELSE Head(ss) \o Concat(Tail(ss))

Range(s) == {s[i] : i \in 1..Len(s)}

Member(x, s) == \E i \in 1..Len(s) : s[i] = x

UpperCase == <<"A", "B", "C", "D", "E", "F", "G", "H", "I", "J", "K", "L", "M",
               "N", "O", "P", "Q", "R", "S", "T", "U", "V", "W", "X", "Y", "Z">>
LowerCase == <<"a", "b", "c", "d", "e", "f", "g", "h", "i", "j", "k", "l", "m",
               "n", "o", "p", "q", "r", "s", "t", "u", "v", "w", "x", "y", "z">>

LowerChar(c) ==
    IF \E i \in 1..Len(UpperCase) : UpperCase[i] = c
    THEN LowerCase[CHOOSE i \in 1..Len(UpperCase) : UpperCase[i] = c]
    ELSE c

\* str.lower()
Lower(s) == [i \in 1..Len(s) |-> LowerChar(s[i])]

\* '.'.join(segs)
RECURSIVE DotJoin(_)
DotJoin(segs) ==
    IF segs = <<>> THEN <<>>
    ELSE IF Len(segs) = 1 THEN segs[1]
    ELSE segs[1] \o <<".">> \o DotJoin(Tail(segs))

\* reversed(s)
Reverse(s) == [i \in 1..Len(s) |-> s[Len(s) + 1 - i]]

----------------------------------------------------------------------------
(* The state of the operations that have not run *)

NoXml == [present |-> FALSE, node |-> <<>>]

NoPackets == [template |-> NoXml, xfa |-> NoXml, datasets |-> NoXml]

NoDatasets == [node |-> <<>>, data_root |-> 0]

NoCall == [f |-> None]

NoRet == [f |-> None]

NoLines == [written |-> FALSE, lines |-> <<>>, content |-> <<>>]

ListIdle == lines = NoLines

XfaIdle ==
    /\ packets = NoPackets
    /\ bindings = <<>>
    /\ som_paths = <<>>
    /\ datasets = NoDatasets

CallIdle == call = NoCall /\ ret = NoRet

----------------------------------------------------------------------------
(* Field tree *)

Widget == "/Widget"

\* obj.get("/T") -> str, "" when absent
name_of(d, field) == d.node[field].T

is_widget(d, obj) == d.node[obj].Subtype = Widget

full_name_always_dotted(parent_name, current_name) ==
    IF parent_name # <<>>
    THEN parent_name \o <<".">> \o current_name
    ELSE current_name

\* the full_name computed in walk_fields
full_name_of(parent_name, current_name) ==
    IF parent_name # <<>> /\ current_name # <<>>
    THEN parent_name \o <<".">> \o current_name
    ELSE IF current_name # <<>> THEN current_name ELSE parent_name

own_entry_first(entries, ft, entry) ==
    IF ft # None THEN <<entry>> \o entries ELSE entries

\* "if ft is not None: entries.append(...)", after the child fields' entries
entries_with_own(entries, ft, entry) ==
    IF ft # None THEN Append(entries, entry) ELSE entries

RECURSIVE walk_fields(_, _, _)
walk_fields(d, field, parent_name) ==
    LET full_name == full_name_of(parent_name, name_of(d, field))
        kids == d.node[field].Kids
        widgets == SelectSeq(kids, LAMBDA kid : is_widget(d, kid))
        child_fields == SelectSeq(kids, LAMBDA kid : ~is_widget(d, kid))
        entries == Concat([i \in 1..Len(child_fields) |->
                              walk_fields(d, child_fields[i], full_name)])
    IN  entries_with_own(entries, d.node[field].FT,
                         [name |-> full_name, field |-> field, widgets |-> widgets])

flatten_all_fields(d) ==
    Concat([i \in 1..Len(d.Fields) |-> walk_fields(d, d.Fields[i], <<>>)])

----------------------------------------------------------------------------
(* Documents *)

NoFf == [k |-> "none", n |-> 0]
IntFf(n) == [k |-> "int", n |-> n]
BadFf == [k |-> "bad", n |-> 0]

NoAP == [present |-> FALSE, N |-> <<>>]
APKeys(keys) == [present |-> TRUE, N |-> keys]

Unset == [k |-> "unset", s |-> <<>>]
PdfStr(s) == [k |-> "str", s |-> s]
PdfName(s) == [k |-> "name", s |-> s]

Node(t, ft, subtype, kids, ff, ap) ==
    [T |-> t, FT |-> ft, Subtype |-> subtype, Kids |-> kids, Ff |-> ff, AP |-> ap]

NumNodes(d) == Len(d.node)

AllUnset(d) == [n \in 1..NumNodes(d) |-> Unset]

RECURSIVE SortedSeq(_)
SortedSeq(S) ==
    IF S = {} THEN <<>>
    ELSE LET m == CHOOSE x \in S : \A y \in S : x <= y
         IN  <<m>> \o SortedSeq(S \ {m})

RECURSIVE AncestorsOrSelf(_, _)
AncestorsOrSelf(p, n) == IF n = 0 THEN {0} ELSE {n} \cup AncestorsOrSelf(p, p[n])

\* The trees of N nodes, numbered in document order.
\* parent[n] = 0: n is in /Fields; otherwise n is in the /Kids of parent[n]
ParentFns(N) ==
    {p \in [1..N -> 0..(N - 1)] :
        \A n \in 1..N : p[n] < n /\ (n > 1 => p[n] \in AncestorsOrSelf(p, n - 1))}

ChildrenOf(p, N, m) == SortedSeq({n \in 1..N : p[n] = m})

FlatNames == {<<>>, <<"a">>}

FlatKinds == [FT : {None, "/Tx"}, Subtype : {None, Widget}]

TreeDoc(N, p, t, k) ==
    [acro |-> TRUE, need |-> FALSE,
     Fields |-> ChildrenOf(p, N, 0),
     node |-> [n \in 1..N |->
                  Node(t[n], k[n].FT, k[n].Subtype, ChildrenOf(p, N, n), NoFf, NoAP)]]

InsertAt(s, i, x) == SubSeq(s, 1, i - 1) \o <<x>> \o SubSeq(s, i, Len(s))

\* the document with one typed leaf added at position pos of the /Kids of
\* parent (of /Fields when parent = 0)
WithLeaf(d, parent, pos, t, subtype) ==
    LET leaf == NumNodes(d) + 1
        grown == Append(d.node, Node(t, "/Tx", subtype, <<>>, NoFf, NoAP))
    IN  IF parent = 0
        THEN [d EXCEPT !.Fields = InsertAt(@, pos, leaf), !.node = grown]
        ELSE [d EXCEPT !.node = [grown EXCEPT ![parent].Kids = InsertAt(@, pos, leaf)]]

----------------------------------------------------------------------------
(* The flattener as an operation: flatten, add a leaf, flatten again *)

InitFlatten ==
    /\ \E N \in 1..MaxNodes :
          \E p \in ParentFns(N), t \in [1..N -> FlatNames], k \in [1..N -> FlatKinds] :
             doc = TreeDoc(N, p, t, k)
    /\ V = AllUnset(doc)
    /\ AS = AllUnset(doc)
    /\ pc = "tree"
    /\ fields = <<>>
    /\ prevFlat = <<>>
    /\ data = <<>>
    /\ idx = 0
    /\ applied = 0
    /\ step = 0
    /\ saves = <<>>
    /\ raised = None
    /\ ListIdle /\ XfaIdle /\ CallIdle

Flatten ==
    /\ pc \in {"tree", "grown"}
    /\ prevFlat' = fields
    /\ fields' = flatten_all_fields(doc)
    /\ pc' = IF pc = "tree" THEN "flat" ELSE "reflat"
    /\ UNCHANGED <<doc, V, AS, data, idx, applied, step, saves, raised>>
    /\ UNCHANGED <<listVars, xfaVars, callVars>>

AddLeaf ==
    /\ pc = "flat"
    /\ \E parent \in 0..NumNodes(doc), subtype \in {None, Widget} :
         \E pos \in 1..(Len(IF parent = 0 THEN doc.Fields ELSE doc.node[parent].Kids) + 1) :
            doc' = WithLeaf(doc, parent, pos, <<"c">>, subtype)
    /\ V' = AllUnset(doc')
    /\ AS' = AllUnset(doc')
    /\ pc' = "grown"
    /\ UNCHANGED <<fields, prevFlat, data, idx, applied, step, saves, raised>>
    /\ UNCHANGED <<listVars, xfaVars, callVars>>

NextFlatten == Flatten \/ AddLeaf

SpecFlatten == InitFlatten /\ [][NextFlatten]_vars

----------------------------------------------------------------------------
(* Values of the batch (JSON) *)

JBool(b) == [t |-> "bool", b |-> b, n |-> 0, s |-> <<>>]
JNum(n) == [t |-> "num", b |-> FALSE, n |-> n, s |-> <<>>]
JStr(s) == [t |-> "str", b |-> FALSE, n |-> 0, s |-> s]
JNull == [t |-> "null", b |-> FALSE, n |-> 0, s |-> <<>>]
\* a list of scalars, and the empty object
JList(items) == [t |-> "list", b |-> FALSE, n |-> 0, s |-> <<>>, items |-> items]
JDict == [t |-> "dict", b |-> FALSE, n |-> 0, s |-> <<>>]

Digit(n) == CASE n = 0 -> "0" [] n = 1 -> "1" [] n = 2 -> "2" [] n = 3 -> "3"
              [] n = 4 -> "4" [] n = 5 -> "5" [] n = 6 -> "6" [] n = 7 -> "7"
              [] n = 8 -> "8" [] OTHER -> "9"

RECURSIVE Digits(_)
Digits(n) == IF n < 10 THEN <<Digit(n)>> ELSE Append(Digits(n \div 10), Digit(n % 10))

\* ", ".join(parts)
RECURSIVE CommaJoin(_)
CommaJoin(parts) ==
    IF parts = <<>> THEN <<>>
    ELSE IF Len(parts) = 1 THEN parts[1]
    ELSE parts[1] \o <<",", " ">> \o CommaJoin(Tail(parts))

\* str(value) of a scalar: a bool, a non-negative int, a str, None
ScalarStr(value) ==
    CASE value.t = "bool" ->
            IF value.b THEN <<"T", "r", "u", "e">> ELSE <<"F", "a", "l", "s", "e">>
      [] value.t = "num" -> Digits(value.n)
      [] value.t = "str" -> value.s
      [] OTHER -> <<"N", "o", "n", "e">>

\* repr(value) of a scalar
PyRepr(value) ==
    IF value.t = "str" THEN <<"'">> \o value.s \o <<"'">> ELSE ScalarStr(value)

\* str(value)
PyStr(value) ==
    CASE value.t = "list" ->
            <<"[">> \o CommaJoin([i \in 1..Len(value.items) |-> PyRepr(value.items[i])])
                   \o <<"]">>
      [] value.t = "dict" -> <<"{", "}">>
      [] OTHER -> ScalarStr(value)

\* json.dumps(value, ensure_ascii=False) of a scalar
JsonScalar(value) ==
    CASE value.t = "bool" ->
            IF value.b THEN <<"t", "r", "u", "e">> ELSE <<"f", "a", "l", "s", "e">>
      [] value.t = "num" -> Digits(value.n)
      [] value.t = "str" -> <<"\"">> \o value.s \o <<"\"">>
      [] OTHER -> <<"n", "u", "l", "l">>

\* json.dumps(value, ensure_ascii=False) of a list or of the empty object
json_dumps(value) ==
    IF value.t = "list"
    THEN <<"[">> \o CommaJoin([i \in 1..Len(value.items) |-> JsonScalar(value.items[i])])
                \o <<"]">>
    ELSE <<"{", "}">>

RECURSIVE LStrip(_)
LStrip(s) == IF s # <<>> /\ Head(s) = " " THEN LStrip(Tail(s)) ELSE s

RECURSIVE RStrip(_)
RStrip(s) ==
    IF s # <<>> /\ s[Len(s)] = " " THEN RStrip(SubSeq(s, 1, Len(s) - 1)) ELSE s

\* str.strip()
Strip(s) == RStrip(LStrip(s))

----------------------------------------------------------------------------
(* Appearance names and flags *)

Off == <<"/", "O", "f", "f">>
Yes == <<"/", "Y", "e", "s">>

appearance_names_keeping_off(d, widget) ==
    LET ap == d.node[widget].AP
    IN  IF ~ap.present \/ ap.N = <<>> THEN [on |-> <<<<"/", "Y", "e", "s">>>>, off |-> Off]
        ELSE [on |-> ap.N, off |-> Off]

get_appearance_names(d, widget) ==
    LET ap == d.node[widget].AP
        names == ap.N
        off_name == Off
        on_names == SelectSeq(names, LAMBDA n : n # off_name)
    IN  IF ~ap.present THEN [on |-> <<Yes>>, off |-> Off]
        ELSE IF names = <<>> THEN [on |-> <<Yes>>, off |-> Off]
        ELSE [on |-> IF on_names = <<>> THEN <<Yes>> ELSE on_names, off |-> off_name]

get_field_flags(d, field) ==
    LET ff == d.node[field].Ff
    IN  IF ff.k = "int" THEN ff.n ELSE 0

PushButtonBit == 65536
RadioBit == 32768

HasBit(ff, bit) == (ff \div bit) % 2 = 1

is_push_button(ff) == HasBit(ff, PushButtonBit)

is_radio(ff) == HasBit(ff, RadioBit)

NoneSel == [ok |-> FALSE, s |-> <<>>]
Sel(c) == [ok |-> TRUE, s |-> c]

\* the first candidate equal to v ignoring case, else the first candidate
MatchCandidate(v, candidates) ==
    IF \E i \in 1..Len(candidates) : Lower(v) = Lower(candidates[i])
    THEN candidates[CHOOSE i \in 1..Len(candidates) :
                       /\ Lower(v) = Lower(candidates[i])
                       /\ \A j \in 1..(i - 1) : Lower(v) # Lower(candidates[j])]
    ELSE candidates[1]

FalseWords == {<<"/", "f", "a", "l", "s", "e">>, <<"/", "0">>, <<"/", "o", "f", "f">>,
               <<"/", "n", "o">>}

normalize_rejecting_false_words(val, candidates) ==
    CASE val.t = "bool" -> IF val.b THEN Sel(candidates[1]) ELSE NoneSel
      [] val.t = "num" -> IF val.n # 0 THEN Sel(candidates[1]) ELSE NoneSel
      [] val.t = "str" ->
            LET v == Strip(val.s)
                w == IF v # <<>> /\ v[1] # "/" THEN <<"/">> \o v ELSE v
            IN  IF v = <<>> \/ Lower(w) \in FalseWords THEN NoneSel
                ELSE Sel(MatchCandidate(w, candidates))
      [] OTHER -> NoneSel

normalize_on_value(val, candidates) ==
    CASE val.t = "bool" -> IF val.b THEN Sel(candidates[1]) ELSE NoneSel
      [] val.t = "num" -> IF val.n # 0 THEN Sel(candidates[1]) ELSE NoneSel
      [] val.t = "str" ->
            LET v == Strip(val.s)
            IN  IF v = <<>> THEN NoneSel
                ELSE Sel(MatchCandidate(IF v[1] # "/" THEN <<"/">> \o v ELSE v, candidates))
      [] OTHER -> NoneSel

----------------------------------------------------------------------------
(* Typed value applier: each operator returns the new /V and /AS tables *)

set_text(v, as, field, value) ==
    [V |-> [v EXCEPT ![field] =
                PdfStr(IF value.t # "null" THEN PyStr(value) ELSE <<>>)],
     AS |-> as]

set_choice(v, as, field, value) ==
    IF value.t = "list"
    THEN IF value.items # <<>>
         THEN [V |-> [v EXCEPT ![field] = PdfStr(PyStr(value.items[1]))], AS |-> as]
         ELSE [V |-> v, AS |-> as]
    ELSE [V |-> [v EXCEPT ![field] =
                    PdfStr(IF value.t # "null" THEN PyStr(value) ELSE <<>>)],
          AS |-> as]

RECURSIVE append_new(_, _)
append_new(acc, names) ==
    IF names = <<>> THEN acc
    ELSE append_new(IF Member(Head(names), acc) THEN acc ELSE Append(acc, Head(names)),
                    Tail(names))

\* all_on_names: the on-names of the widgets, in order, without repeats
RECURSIVE collect_on_names(_, _, _)
collect_on_names(d, widgets, acc) ==
    IF widgets = <<>> THEN acc
    ELSE collect_on_names(d, Tail(widgets),
                          append_new(acc, get_appearance_names(d, Head(widgets)).on))

\* the /AS a radio widget gets when selected_on was chosen
radio_state_always_selected(d, w, selected_on) == selected_on

radio_state(d, w, selected_on) ==
    LET names == get_appearance_names(d, w)
    IN  IF Member(selected_on, names.on) THEN selected_on ELSE names.off

checkbox_state_toggled(d, w) ==
    LET on_names == get_appearance_names(d, w).on
    IN  IF AS[w] = PdfName(on_names[1]) THEN Off ELSE on_names[1]

\* the /AS a checkbox widget gets when an on-name was chosen
checkbox_state(d, w) ==
    LET on_names == get_appearance_names(d, w).on
    IN  IF on_names # <<>> THEN on_names[1] ELSE Yes

set_checkbox_or_radio(d, v, as, field, widgets, value) ==
    LET ff == get_field_flags(d, field)
        all_on_names == collect_on_names(d, widgets, <<>>)
        off_name == Off
        selected_on == IF all_on_names # <<>>
                       THEN normalize_on_value(value, all_on_names)
                       ELSE NoneSel
        ws == Range(widgets)
    IN  IF is_push_button(ff) THEN [V |-> v, AS |-> as]
        ELSE IF is_radio(ff)
        THEN IF selected_on.ok
             THEN [V |-> [v EXCEPT ![field] = PdfName(selected_on.s)],
                   AS |-> [n \in DOMAIN as |->
                              IF n \in ws THEN PdfName(radio_state(d, n, selected_on.s))
                              ELSE as[n]]]
             ELSE [V |-> [v EXCEPT ![field] = PdfName(off_name)],
                   AS |-> [n \in DOMAIN as |->
                              IF n \in ws THEN PdfName(off_name) ELSE as[n]]]
        ELSE IF selected_on.ok
             THEN [V |-> [v EXCEPT ![field] = PdfName(selected_on.s)],
                   AS |-> [n \in DOMAIN as |->
                              IF n \in ws THEN PdfName(checkbox_state(d, n)) ELSE as[n]]]
             ELSE [V |-> [v EXCEPT ![field] = PdfName(off_name)],
                   AS |-> [n \in DOMAIN as |->
                              IF n \in ws THEN PdfName(off_name) ELSE as[n]]]

apply_value_to_field(d, v, as, fentry, value) ==
    LET ft == d.node[fentry.field].FT
    IN  CASE ft = "/Tx" -> set_text(v, as, fentry.field, value)
          [] ft = "/Ch" -> set_choice(v, as, fentry.field, value)
          [] ft = "/Btn" -> set_checkbox_or_radio(d, v, as, fentry.field, fentry.widgets, value)
          [] OTHER -> [V |-> v, AS |-> as]

----------------------------------------------------------------------------
(* Name resolution of the fill loop *)

NoEntry == [name |-> <<>>, field |-> 0, widgets |-> <<>>]

\* by_name: a dict in first-insertion order of its keys, each key holding the
\* LAST entry of that name; entries with an empty name are left out
by_name(flat) ==
    LET firsts == SelectSeq([i \in 1..Len(flat) |-> i],
                            LAMBDA i : /\ flat[i].name # <<>>
                                       /\ \A j \in 1..(i - 1) : flat[j].name # flat[i].name)
        last(n) == CHOOSE i \in 1..Len(flat) :
                      /\ flat[i].name = n
                      /\ \A j \in (i + 1)..Len(flat) : flat[j].name # n
    IN  [k \in 1..Len(firsts) |->
            [n |-> flat[firsts[k]].name, f |-> flat[last(flat[firsts[k]].name)]]]

\* short_names_map: local name /T -> the entries of that local name, in
\* first-insertion order of the local names; empty local names are left out
short_names_map(d, flat) ==
    LET firsts == SelectSeq([i \in 1..Len(flat) |-> i],
                            LAMBDA i : /\ name_of(d, flat[i].field) # <<>>
                                       /\ \A j \in 1..(i - 1) :
                                             name_of(d, flat[j].field) # name_of(d, flat[i].field))
    IN  [k \in 1..Len(firsts) |->
            [base |-> name_of(d, flat[firsts[k]].field),
             flist |-> SelectSeq(flat, LAMBDA e : name_of(d, e.field) =
                                                  name_of(d, flat[firsts[k]].field))]]

\* dict.get(key, []) on short_names_map
short_get(smap, key) ==
    IF \E k \in 1..Len(smap) : smap[k].base = key
    THEN smap[CHOOSE k \in 1..Len(smap) : smap[k].base = key].flist
    ELSE <<>>

any_short(candidates) == Len(candidates) >= 1

\* "if len(candidates) == 1"
unique_short(candidates) == Len(candidates) = 1

First(S) == CHOOSE x \in S : \A y \in S : x <= y

\* one iteration's choice: the step that matched (0: none) and the entry
resolve(d, flat, key) ==
    LET bn == by_name(flat)
        smap == short_names_map(d, flat)
        exact == {k \in 1..Len(bn) : bn[k].n = key}
        candidates == short_get(smap, key)
        lc_key == Lower(key)
        full_ci == {k \in 1..Len(bn) : Lower(bn[k].n) = lc_key}
        short_ci == {k \in 1..Len(smap) :
                        Lower(smap[k].base) = lc_key /\ Len(smap[k].flist) = 1}
    IN  IF exact # {} THEN [step |-> 1, e |-> bn[First(exact)].f]
        ELSE IF unique_short(candidates) THEN [step |-> 2, e |-> candidates[1]]
        ELSE IF full_ci # {} THEN [step |-> 3, e |-> bn[First(full_ci)].f]
        ELSE IF short_ci # {} THEN [step |-> 4, e |-> smap[First(short_ci)].flist[1]]
        ELSE [step |-> 0, e |-> NoEntry]

----------------------------------------------------------------------------
(* fill_acroform_with_json *)

Open ==
    /\ pc = "start"
    /\ IF ~doc.acro
       THEN /\ pc' = "done"
            /\ UNCHANGED <<doc, fields>>
       ELSE /\ doc' = [doc EXCEPT !.need = TRUE]
            /\ fields' = flatten_all_fields(doc)
            /\ pc' = "loop"
    /\ UNCHANGED <<V, AS, prevFlat, data, idx, applied, step, saves, raised>>
    /\ UNCHANGED <<listVars, xfaVars, callVars>>

ProcessKey ==
    /\ pc = "loop"
    /\ idx < Len(data)
    /\ LET key == data[idx + 1].key
           value == data[idx + 1].value
           r == resolve(doc, fields, key)
           new == IF r.step # 0
                  THEN apply_value_to_field(doc, V, AS, r.e, value)
                  ELSE [V |-> V, AS |-> AS]
       IN  /\ V' = new.V
           /\ AS' = new.AS
           /\ applied' = r.e.field
           /\ step' = r.step
    /\ idx' = idx + 1
    /\ UNCHANGED <<doc, pc, fields, prevFlat, data, saves, raised>>
    /\ UNCHANGED <<listVars, xfaVars, callVars>>

SaveOutcomes == {"ok", "PermissionError", "OSError"}

\* pdf.save(pdf_out) and, on PermissionError, pdf.save(alt)
Save ==
    /\ pc = "loop"
    /\ idx = Len(data)
    /\ \E outcome \in SaveOutcomes :
          /\ saves' = Append(saves, [path |-> "pdf_out", outcome |-> outcome])
          /\ pc' = CASE outcome = "ok" -> "done"
                     [] outcome = "PermissionError" -> "save_alt"
                     [] OTHER -> "raised"
          /\ raised' = IF outcome = "OSError" THEN outcome ELSE raised
    /\ UNCHANGED <<doc, V, AS, fields, prevFlat, data, idx, applied, step>>
    /\ UNCHANGED <<listVars, xfaVars, callVars>>

SaveAlt ==
    /\ pc = "save_alt"
    /\ \E outcome \in SaveOutcomes :
          /\ saves' = Append(saves, [path |-> "alt", outcome |-> outcome])
          /\ pc' = IF outcome = "ok" THEN "done" ELSE "raised"
          /\ raised' = IF outcome = "ok" THEN raised ELSE outcome
    /\ UNCHANGED <<doc, V, AS, fields, prevFlat, data, idx, applied, step>>
    /\ UNCHANGED <<listVars, xfaVars, callVars>>

Next == Open \/ ProcessKey \/ Save \/ SaveAlt

----------------------------------------------------------------------------
(* Inputs of the fill: documents and batches *)

NoFormDoc == [acro |-> FALSE, need |-> FALSE, Fields |-> <<>>, node |-> <<>>]

\* the batches of at most MaxKeys pairs with distinct keys (a JSON object)
Batches(keys, values) ==
    UNION {{b \in [1..n -> [key : keys, value : values]] :
                \A i, j \in 1..n : b[i].key = b[j].key => i = j} :
           n \in 0..MaxKeys}

(* Documents for the name resolution: every forest of MaxNodes nodes, at most
   two levels deep, whose leaves are text fields and whose inner nodes are
   containers, named from ResolveNames. *)
ResolveNames == {<<>>, <<"a">>, <<"A", "b">>, <<"a", "B">>}

ResolveKeys == {<<>>, <<"a">>, <<"A", "b">>, <<"a", "b">>,
                <<"a", ".", "A", "b">>, <<"a", ".", "a", "b">>}

Ann == <<"A", "n", "n">>

TwoLevels(N) == {p \in ParentFns(N) : \A n \in 1..N : p[n] # 0 => p[p[n]] = 0}

LeafKinds(N, p) ==
    [n \in 1..N |->
        [FT |-> IF \E m \in 1..N : p[m] = n THEN None ELSE "/Tx", Subtype |-> None]]

ResolveDocs ==
    {NoFormDoc} \cup
    {TreeDoc(MaxNodes, p, t, LeafKinds(MaxNodes, p)) :
        p \in TwoLevels(MaxNodes), t \in [1..MaxNodes -> ResolveNames]}

(* Documents for the value applier: one button field g with its widgets as
   kids, or with the field dictionary itself being the widget. *)
NameA == <<"/", "A">>
NameB == <<"/", "B">>

APSet == {NoAP, APKeys(<<Off>>), APKeys(<<Off, Yes>>), APKeys(<<NameA, Off>>),
          APKeys(<<NameB, NameA>>)}

FfSet == {NoFf, BadFf, IntFf(RadioBit), IntFf(PushButtonBit)}

GroupDoc(ff, aps) ==
    [acro |-> TRUE, need |-> FALSE,
     Fields |-> <<1>>,
     node |-> [n \in 1..(Len(aps) + 1) |->
                  IF n = 1
                  THEN Node(<<"g">>, "/Btn", None, [i \in 1..Len(aps) |-> i + 1], ff, NoAP)
                  ELSE Node(<<>>, None, Widget, <<>>, NoFf, aps[n - 1])]]

MergedDoc(ff, ap) ==
    [acro |-> TRUE, need |-> FALSE,
     Fields |-> <<1>>,
     node |-> <<Node(<<"g">>, "/Btn", Widget, <<>>, ff, ap)>>]

ButtonDocs ==
    UNION {{GroupDoc(ff, aps) : ff \in FfSet, aps \in [1..n -> APSet]} : n \in 0..MaxWidgets}
    \cup {MergedDoc(ff, ap) : ff \in FfSet, ap \in APSet}

ButtonKeys == {<<"g">>, <<"G">>}

ButtonValues == {JBool(TRUE), JBool(FALSE), JNum(0), JNull,
                 JStr(<<"A">>), JStr(<<"/", "b">>), JStr(<<" ">>)}

(* The form of the end-to-end scenario: text field name.first, checkbox
   agree (on-name Yes, off-name Off) and push button submit.  The checkbox's
   widget is a kid of the field, or the field dictionary itself. *)
S_name == <<"n", "a", "m", "e">>
S_first == <<"f", "i", "r", "s", "t">>
S_agree == <<"a", "g", "r", "e", "e">>
S_submit == <<"s", "u", "b", "m", "i", "t">>

ScenarioDoc(agreeKid, ap) ==
    [acro |-> TRUE, need |-> FALSE,
     Fields |-> <<1, 4, 6>>,
     node |-> <<Node(S_name, None, None, <<2>>, NoFf, NoAP),
                Node(S_first, "/Tx", None, <<3>>, NoFf, NoAP),
                Node(<<>>, None, Widget, <<>>, NoFf, NoAP),
                IF agreeKid
                THEN Node(S_agree, "/Btn", None, <<5>>, NoFf, NoAP)
                ELSE Node(S_agree, "/Btn", Widget, <<>>, NoFf, ap),
                Node(<<>>, None, IF agreeKid THEN Widget ELSE None, <<>>, NoFf,
                     IF agreeKid THEN ap ELSE NoAP),
                Node(S_submit, "/Btn", Widget, <<>>, IntFf(PushButtonBit),
                     APKeys(<<Off, Yes>>))>>]

ScenarioDocs ==
    {ScenarioDoc(agreeKid, ap) :
        agreeKid \in BOOLEAN, ap \in {APKeys(<<Off, Yes>>), APKeys(<<Yes, Off>>)}}

ScenarioPairs == {[key |-> S_name \o <<".">> \o S_first, value |-> JStr(Ann)],
                  [key |-> S_agree, value |-> JBool(TRUE)]}

ScenarioBatches ==
    UNION {{b \in [1..n -> ScenarioPairs] : \A i, j \in 1..n : b[i] = b[j] => i = j} :
           n \in 0..Cardinality(ScenarioPairs)}

InitFill(docs, batches) ==
    /\ \E d \in docs, b \in batches : doc = d /\ data = b
    /\ V = AllUnset(doc)
    /\ AS = AllUnset(doc)
    /\ pc = "start"
    /\ fields = <<>>
    /\ prevFlat = <<>>
    /\ idx = 0
    /\ applied = 0
    /\ step = 0
    /\ saves = <<>>
    /\ raised = None
    /\ ListIdle /\ XfaIdle /\ CallIdle

Init ==
    \/ InitFill(ButtonDocs, Batches(ButtonKeys, ButtonValues))
    \/ InitFill(ScenarioDocs, ScenarioBatches)

Spec == Init /\ [][Next]_vars

InitResolve == InitFill(ResolveDocs, Batches(ResolveKeys, {JStr(Ann)}))

SpecResolve == InitResolve /\ [][Next]_vars

----------------------------------------------------------------------------
(* XML trees (lxml) and the datasets path resolver _set_value_by_ref.
   An element is a row of a node table: its tag without the namespace, ns
   (the tag has a namespace), the value of its name attribute (<<>>: none),
   its text and its children in document order.  The paths given to find()
   are built from refs over letters, digits, "$" and index groups "[..]". *)

Elem(tag, ns, name, text, kids) ==
    [tag |-> tag, ns |-> ns, name |-> name, text |-> text, kids |-> kids]

DataTag == <<"d", "a", "t", "a">>

Letters == Range(UpperCase) \cup Range(LowerCase)

DigitChars == {"0", "1", "2", "3", "4", "5", "6", "7", "8", "9"}

\* the names etree.SubElement accepts as a tag (it raises ValueError on the
\* empty name and on a name such as "$" or "0")
IsXmlName(name) ==
    /\ name # <<>>
    /\ name[1] \in Letters \cup {"_"}
    /\ \A i \in 2..Len(name) : name[i] \in Letters \cup DigitChars \cup {"_", "-"}

\* re.split(r"[./]", s)
RECURSIVE SplitRef(_, _)
SplitRef(s, acc) ==
    IF s = <<>> THEN <<acc>>
    ELSE IF Head(s) \in {".", "/"} THEN <<acc>> \o SplitRef(Tail(s), <<>>)
    ELSE SplitRef(Tail(s), Append(acc, Head(s)))

\* re.sub(r"\[.*?\]", "", part): every "[" up to the next "]" is removed
RECURSIVE RemoveIndexes(_)
RemoveIndexes(part) ==
    IF part = <<>> THEN <<>>
    ELSE IF Head(part) = "[" /\ \E i \in 2..Len(part) : part[i] = "]"
    THEN LET close == CHOOSE i \in 2..Len(part) :
                         part[i] = "]" /\ \A j \in 2..(i - 1) : part[j] # "]"
         IN  RemoveIndexes(SubSeq(part, close + 1, Len(part)))
    ELSE <<Head(part)>> \o RemoveIndexes(Tail(part))

\* the first element of s that is in wanted; 0 when there is none
FirstOf(s, wanted) ==
    IF \E i \in 1..Len(s) : s[i] \in wanted
    THEN s[CHOOSE i \in 1..Len(s) :
              s[i] \in wanted /\ \A j \in 1..(i - 1) : s[j] \notin wanted]
    ELSE 0

\* current.find('./*[@name="NAME"]'): 0 for None
find_by_name_attribute(ds, current, name) ==
    FirstOf(ds.node[current].kids,
            {k \in 1..Len(ds.node) : ds.node[k].name # <<>> /\ ds.node[k].name = name})

\* current.find('./NAME'): the first child with that tag and no namespace;
\* './' is read as './*', the first child of any tag
find_by_tag(ds, current, name) ==
    IF name = <<>>
    THEN FirstOf(ds.node[current].kids, 1..Len(ds.node))
    ELSE FirstOf(ds.node[current].kids,
                 {k \in 1..Len(ds.node) : ds.node[k].tag = name /\ ~ds.node[k].ns})

\* etree.SubElement(current, name): the new element is the last row
SubElement(ds, current, name) ==
    [ds EXCEPT !.node = Append([@ EXCEPT ![current].kids = Append(@, Len(ds.node) + 1)],
                               Elem(name, FALSE, <<>>, <<>>, <<>>))]

\* the child the loop of _set_value_by_ref goes on with: 0 when it has to be
\* created
existing_child(ds, current, name) ==
    IF find_by_name_attribute(ds, current, name) # 0
    THEN find_by_name_attribute(ds, current, name)
    ELSE find_by_tag(ds, current, name)

\* the loop over path_parts: the tree, the elements gone through and the
\* exception that ended the loop
RECURSIVE descend(_, _, _, _)
descend(ds, current, path_parts, trail) ==
    IF path_parts = <<>> THEN [ds |-> ds, trail |-> trail, raised |-> None]
    ELSE LET name == RemoveIndexes(Head(path_parts))
             child == existing_child(ds, current, name)
         IN  IF child # 0
             THEN descend(ds, child, Tail(path_parts), Append(trail, child))
             ELSE IF ~IsXmlName(name)
             THEN [ds |-> ds, trail |-> trail, raised |-> "ValueError"]
             ELSE descend(SubElement(ds, current, name), Len(ds.node) + 1,
                          Tail(path_parts), Append(trail, Len(ds.node) + 1))

\* the text the last element gets
text_of(value) ==
    IF value.t \in {"dict", "list"} THEN json_dumps(value)
    ELSE IF value.t = "null" THEN <<>>
    ELSE PyStr(value)

path_parts_of(ref) == SelectSeq(SplitRef(Strip(ref), <<>>), LAMBDA p : p # <<>>)

set_value_by_ref(ds, ref, value) ==
    LET path_parts == path_parts_of(ref)
        r == descend(ds, ds.data_root, path_parts, <<>>)
    IN  IF path_parts = <<>> THEN [ds |-> ds, trail |-> <<>>, raised |-> None]
        ELSE IF r.raised # None THEN r
        ELSE [r EXCEPT !.ds.node[r.trail[Len(r.trail)]].text = text_of(value)]

----------------------------------------------------------------------------
(* XFA template analysis (xfa_extract.py): bindings and SOM paths.
   A template is a node table in document order; an element has its local
   tag, its name attribute and its ref attribute (<<>>: none). *)

TElem(tag, name, ref, kids) == [tag |-> tag, name |-> name, ref |-> ref, kids |-> kids]

\* the descendants of an element, in document order
RECURSIVE tree_descendants(_, _)
tree_descendants(t, el) ==
    Concat([i \in 1..Len(t.node[el].kids) |->
               <<t.node[el].kids[i]>> \o tree_descendants(t, t.node[el].kids[i])])

\* root.findall('.//{*}TAG')
findall(t, tag) == SelectSeq(tree_descendants(t, 1), LAMBDA el : t.node[el].tag = tag)

\* el.find('.//{*}bind'): 0 for None
find_bind(t, el) ==
    FirstOf(tree_descendants(t, el), {b \in 1..Len(t.node) : t.node[b].tag = "bind"})

\* el.getparent(): 0 for None
getparent(t, el) ==
    IF \E m \in 1..Len(t.node) : Member(el, t.node[m].kids)
    THEN CHOOSE m \in 1..Len(t.node) : Member(el, t.node[m].kids)
    ELSE 0

\* a dict as the sequence of its items in insertion order
dict_has(d, key) == \E i \in 1..Len(d) : d[i].k = key

dict_get(d, key) == d[CHOOSE i \in 1..Len(d) : d[i].k = key].v

dict_keys(d) == {d[i].k : i \in 1..Len(d)}

dict_values(d) == {d[i].v : i \in 1..Len(d)}

\* d[key] = value
dict_set(d, key, value) ==
    IF dict_has(d, key)
    THEN [i \in 1..Len(d) |-> IF d[i].k = key THEN [k |-> key, v |-> value] ELSE d[i]]
    ELSE Append(d, [k |-> key, v |-> value])

setdefault_overwriting(d, key, value) ==
    IF \E i \in 1..Len(d) : d[i].k = key
    THEN [i \in 1..Len(d) |-> IF d[i].k = key THEN [k |-> key, v |-> value] ELSE d[i]]
    ELSE Append(d, [k |-> key, v |-> value])

\* d.setdefault(key, value)
dict_setdefault(d, key, value) ==
    IF dict_has(d, key) THEN d ELSE Append(d, [k |-> key, v |-> value])

\* one of the two loops of get_bindings_from_template
RECURSIVE collect_bindings(_, _, _)
collect_bindings(t, els, out) ==
    IF els = <<>> THEN out
    ELSE LET el == Head(els)
             name == t.node[el].name
             bind == find_bind(t, el)
         IN  IF name = <<>> \/ bind = 0 \/ (bind # 0 /\ t.node[bind].ref = <<>>)
             THEN collect_bindings(t, Tail(els), out)
             ELSE collect_bindings(t, Tail(els), dict_set(out, name, t.node[bind].ref))

get_bindings_from_template(t) ==
    collect_bindings(t, findall(t, "exclGroup"), collect_bindings(t, findall(t, "field"), <<>>))

\* the names appended while going up from p: every named subform
RECURSIVE subform_names_up(_, _)
subform_names_up(t, p) ==
    IF p = 0 THEN <<>>
    ELSE (IF t.node[p].tag = "subform" /\ t.node[p].name # <<>>
          THEN <<t.node[p].name>> ELSE <<>>) \o subform_names_up(t, getparent(t, p))

RECURSIVE collect_som_paths(_, _, _)
collect_som_paths(t, els, result) ==
    IF els = <<>> THEN result
    ELSE LET field == Head(els)
             field_name == t.node[field].name
             names == <<field_name>> \o subform_names_up(t, getparent(t, field))
             som_path == DotJoin(Reverse(names))
         IN  IF field_name = <<>>
             THEN collect_som_paths(t, Tail(els), result)
             ELSE collect_som_paths(t, Tail(els), dict_setdefault(result, field_name, som_path))

get_som_paths_from_template(t) == collect_som_paths(t, findall(t, "field"), <<>>)

(* The generated templates: a root and MaxTags elements under it; a bind
   element has no children. *)
TagKinds ==
    {TElem("subform", <<"s">>, <<>>, <<>>), TElem("subform", <<>>, <<>>, <<>>),
     TElem("field", <<"n">>, <<>>, <<>>),
     TElem("exclGroup", <<"n">>, <<>>, <<>>),
     TElem("bind", <<>>, <<"r">>, <<>>), TElem("bind", <<>>, <<"q">>, <<>>)}

RootKinds == {TElem("template", <<>>, <<>>, <<>>), TElem("subform", <<"t">>, <<>>, <<>>)}

\* the trees of N elements with the single root 1, numbered in document order
RootedFns(N) == {p \in ParentFns(N) : \A n \in 2..N : p[n] # 0}

\* shape[n]: the children of element n
ShapeOf(N, p) == [n \in 1..N |-> ChildrenOf(p, N, n)]

Template(shape, root, k) ==
    [present |-> TRUE,
     node |-> [n \in 1..Len(shape) |->
                  [(IF n = 1 THEN root ELSE k[n]) EXCEPT !.kids = shape[n]]]]

WellFormed(shape, k) == \A n \in 2..Len(shape) : k[n].tag = "bind" => shape[n] = <<>>

(* The analysis called on its own, on a generated template *)
InitAnalyze ==
    /\ doc = NoFormDoc
    /\ V = AllUnset(doc)
    /\ AS = AllUnset(doc)
    /\ pc = "template"
    /\ fields = <<>>
    /\ prevFlat = <<>>
    /\ data = <<>>
    /\ idx = 0
    /\ applied = 0
    /\ step = 0
    /\ saves = <<>>
    /\ raised = None
    /\ ListIdle /\ CallIdle
    /\ \E p \in RootedFns(MaxTags + 1) :
          LET shape == ShapeOf(MaxTags + 1, p)
          IN  \E root \in RootKinds, k \in [2..(MaxTags + 1) -> TagKinds] :
                 /\ WellFormed(shape, k)
                 /\ packets = [NoPackets EXCEPT !.template = Template(shape, root, k)]
    /\ bindings = <<>>
    /\ som_paths = <<>>
    /\ datasets = NoDatasets

AnalyzeTemplate ==
    /\ pc = "template"
    /\ bindings' = get_bindings_from_template(packets.template)
    /\ som_paths' = get_som_paths_from_template(packets.template)
    /\ pc' = "analyzed"
    /\ UNCHANGED <<data, idx, saves, raised, packets, datasets, acroVars, listVars, callVars>>

NextAnalyze == AnalyzeTemplate

SpecAnalyze == InitAnalyze /\ [][NextAnalyze]_vars

----------------------------------------------------------------------------
(* The XFA fill: main and fill_xfa_with_json (fill_xfa.py) with
   read_xfa_packets (xfa_extract.py).  The input PDF is doc: exists (the
   file is there), readable (pikepdf.open succeeds), root (it has a
   catalog), acro, and XFA: its kind ("none",
   "array" of named packets, or one "stream" holding the whole XDP), the
   template and the datasets packet. *)

XfaDoc(kind, template, ds) ==
    [exists |-> TRUE, readable |-> TRUE, root |-> TRUE, acro |-> TRUE, need |-> FALSE,
     Fields |-> <<>>, node |-> <<>>,
     XFA |-> [kind |-> kind, template |-> template, datasets |-> ds]]

\* an exception with its message
Exc(type, msg) == [raised |-> type, msg |-> msg, packets |-> NoPackets]

\* read_xfa_packets: the packets, or the exception it raises
read_xfa_packets(d) ==
    CASE ~d.exists -> Exc("FileNotFoundError", "Nie znaleziono pliku")
      [] ~d.readable -> Exc("PdfError", "pikepdf.open")
      [] ~d.root -> Exc("ValueError", "PDF nie zawiera katalogu /Root")
      [] ~d.acro -> Exc("ValueError", "PDF nie zawiera /AcroForm")
      [] d.XFA.kind = "none" -> Exc("ValueError", "PDF nie zawiera /XFA")
      [] d.XFA.kind = "array" ->
            IF ~d.XFA.template.present /\ ~d.XFA.datasets.present
            THEN Exc("ValueError", "Nie udalo sie odczytac zadnych pakietow XFA")
            ELSE [raised |-> None, msg |-> "",
                  packets |-> [template |-> d.XFA.template, xfa |-> NoXml,
                               datasets |-> d.XFA.datasets]]
      [] OTHER -> [raised |-> None, msg |-> "",
                   packets |-> [template |-> NoXml, xfa |-> d.XFA.template,
                                datasets |-> NoXml]]

DatasetsTag == <<"d", "a", "t", "a", "s", "e", "t", "s">>

\* etree.Element('datasets')
EmptyDatasets == <<Elem(DatasetsTag, FALSE, <<>>, <<>>, <<>>)>>

\* _get_or_create_data_root on the tree whose root is element 1
get_or_create_data_root(nodes) ==
    LET found == FirstOf(nodes[1].kids, {k \in 1..Len(nodes) : nodes[k].tag = DataTag})
    IN  IF found # 0 THEN [node |-> nodes, data_root |-> found]
        ELSE [node |-> Append([nodes EXCEPT ![1].kids = Append(@, Len(nodes) + 1)],
                              Elem(DataTag, TRUE, <<>>, <<>>, <<>>)),
              data_root |-> Len(nodes) + 1]

\* json_obj as the sequence of its items
json_has(obj, key) == \E i \in 1..Len(obj) : obj[i].key = key

json_get(obj, key) == obj[CHOOSE i \in 1..Len(obj) : obj[i].key = key].value

\* the exception leaves fill_xfa_with_json and main returns 1
XfaRaise(exc) ==
    /\ pc' = "raised"
    /\ raised' = exc

\* an exception raised before anything was resolved, with its message
XfaRaiseMsg(exc, msg) ==
    /\ XfaRaise(exc)
    /\ ret' = [f |-> "fill_xfa_with_json", raised |-> exc, msg |-> msg]

\* the first lines of fill_xfa_with_json: the packets, which must hold a
\* template or a whole XDP
packets_for_fill(d) ==
    LET r == read_xfa_packets(d)
    IN  IF r.raised = None /\ ~r.packets.template.present /\ ~r.packets.xfa.present
        THEN Exc("ValueError", "PDF nie zawiera XFA")
        ELSE r

ReadPackets ==
    /\ pc = "main"
    /\ LET r == packets_for_fill(doc)
       IN  IF r.raised # None
           THEN XfaRaiseMsg(r.raised, r.msg) /\ UNCHANGED packets
           ELSE packets' = r.packets /\ pc' = "analyze" /\ UNCHANGED <<raised, ret>>
    /\ UNCHANGED <<data, idx, saves, bindings, som_paths, datasets, acroVars, listVars, call>>

Analyze ==
    /\ pc = "analyze"
    /\ LET xml == IF packets.template.present THEN packets.template ELSE packets.xfa
       IN  /\ bindings' = get_bindings_from_template(xml)
           /\ som_paths' = get_som_paths_from_template(xml)
    /\ datasets' = get_or_create_data_root(IF packets.datasets.present
                                             THEN packets.datasets.node
                                             ELSE EmptyDatasets)
    /\ pc' = "by_ref"
    /\ idx' = 0
    /\ UNCHANGED <<data, saves, raised, packets, acroVars, listVars, callVars>>

\* one iteration of a mapping loop: when wanted, _set_value_by_ref(data_root,
\* ref, value); after the last iteration the next loop starts
MapStep(this, items, next, wanted, ref, value) ==
    /\ pc = this
    /\ IF idx < items
       THEN LET r == set_value_by_ref(datasets, ref, value)
            IN  IF ~wanted
                THEN /\ idx' = idx + 1
                     /\ UNCHANGED <<pc, raised, datasets>>
                ELSE /\ datasets' = r.ds
                     /\ idx' = idx + 1
                     /\ IF r.raised # None THEN XfaRaise(r.raised)
                        ELSE UNCHANGED <<pc, raised>>
       ELSE /\ pc' = next
            /\ idx' = 0
            /\ UNCHANGED <<raised, datasets>>
    /\ UNCHANGED <<data, saves, packets, bindings, som_paths, acroVars, listVars, callVars>>

\* for field_name, ref in bindings.items(): if ref in json_obj
MapByRef ==
    LET i == IF idx < Len(bindings) THEN idx + 1 ELSE 1
        ref == IF bindings = <<>> THEN <<>> ELSE bindings[i].v
        wanted == bindings # <<>> /\ json_has(data, ref)
    IN  MapStep("by_ref", Len(bindings), "by_name", wanted, ref,
                IF wanted THEN json_get(data, ref) ELSE JNull)

\* for field_name, ref in bindings.items(): if field_name in json_obj
MapByName ==
    LET i == IF idx < Len(bindings) THEN idx + 1 ELSE 1
        ref == IF bindings = <<>> THEN <<>> ELSE bindings[i].v
        wanted == bindings # <<>> /\ json_has(data, bindings[i].k)
    IN  MapStep("by_name", Len(bindings), "by_som", wanted, ref,
                IF wanted THEN json_get(data, bindings[i].k) ELSE JNull)

\* for field_name, som in som_paths.items(): if field_name in json_obj
MapBySom ==
    LET i == IF idx < Len(som_paths) THEN idx + 1 ELSE 1
        som == IF som_paths = <<>> THEN <<>> ELSE som_paths[i].v
        wanted == som_paths # <<>> /\ json_has(data, som_paths[i].k)
    IN  MapStep("by_som", Len(som_paths), "by_path", wanted, som,
                IF wanted THEN json_get(data, som_paths[i].k) ELSE JNull)

\* for k, v in json_obj.items(): if k not in bindings and k not in
\* bindings.values()
MapByPath ==
    LET i == IF idx < Len(data) THEN idx + 1 ELSE 1
        k == IF data = <<>> THEN <<>> ELSE data[i].key
        wanted == data # <<>> /\ k \notin dict_keys(bindings) /\ k \notin dict_values(bindings)
    IN  MapStep("by_path", Len(data), "save", wanted, k,
                IF data = <<>> THEN JNull ELSE data[i].value)

\* the datasets stream is replaced and pdf.save(pdf_out) runs; main calls
\* fill_xfa_with_json once more, with the alternate path, on PermissionError
SaveXfa ==
    /\ pc = "save"
    /\ \E outcome \in SaveOutcomes :
          /\ saves' = Append(saves, [path |-> IF saves = <<>> THEN "out_pdf" ELSE "alt",
                                     outcome |-> outcome, content |-> datasets])
          /\ IF outcome = "ok"
             THEN pc' = "done" /\ UNCHANGED <<raised, idx, xfaVars>>
             ELSE IF outcome = "PermissionError" /\ saves = <<>>
             THEN /\ pc' = "main"
                  /\ idx' = 0
                  /\ packets' = NoPackets
                  /\ bindings' = <<>>
                  /\ som_paths' = <<>>
                  /\ datasets' = NoDatasets
                  /\ UNCHANGED raised
             ELSE XfaRaise(outcome) /\ UNCHANGED <<idx, xfaVars>>
    /\ UNCHANGED <<data, acroVars, listVars, callVars>>

NextXfa ==
    ReadPackets \/ Analyze \/ MapByRef \/ MapByName \/ MapBySom \/ MapByPath \/ SaveXfa

(* Inputs of the XFA fill: the form of the end-to-end scenario (field Email
   bound to $.data.contact.email, datasets empty) and its neighbours. *)
Email == <<"E", "m", "a", "i", "l">>

PlainRef == <<"d", "a", "t", "a", ".", "c", "o", "n", "t", "a", "c", "t", ".",
              "e", "m", "a", "i", "l">>

ScenarioRef == <<"$", ".">> \o PlainRef

Mail == <<"a", "@", "b", ".", "c", "o", "m">>

\* <template><subform name="form1"><field name="Email"><bind ref=REF/>
EmailTemplate(ref, hasBind) ==
    [present |-> TRUE,
     node |-> <<TElem("template", <<>>, <<>>, <<2>>),
                TElem("subform", <<"f", "o", "r", "m", "1">>, <<>>, <<3>>),
                TElem("field", Email, <<>>, IF hasBind THEN <<4>> ELSE <<>>)>>
               \o (IF hasBind THEN <<TElem("bind", <<>>, ref, <<>>)>> ELSE <<>>)]

XfaTemplates ==
    {EmailTemplate(ScenarioRef, TRUE), EmailTemplate(PlainRef, TRUE),
     EmailTemplate(<<>>, FALSE), NoXml}

\* the datasets packet: none, <datasets/>, or <datasets><data/></datasets>
XfaDatasets ==
    {NoXml,
     [present |-> TRUE, node |-> EmptyDatasets],
     [present |-> TRUE,
      node |-> <<Elem(DatasetsTag, TRUE, <<>>, <<>>, <<2>>),
                 Elem(DataTag, TRUE, <<>>, <<>>, <<>>)>>]}

XfaDocs ==
    {XfaDoc("array", t, ds) : t \in XfaTemplates, ds \in XfaDatasets}
    \cup {XfaDoc("stream", t, NoXml) : t \in XfaTemplates \ {NoXml}}
    \cup {XfaDoc("none", NoXml, NoXml)}

XfaKeys == {Email, PlainRef, <<"z">>, <<"$", "z">>}

XfaValues == {JStr(Mail), JNull}

InitXfa ==
    /\ \E d \in XfaDocs, b \in Batches(XfaKeys, XfaValues) : doc = d /\ data = b
    /\ V = AllUnset(doc)
    /\ AS = AllUnset(doc)
    /\ pc = "main"
    /\ fields = <<>>
    /\ prevFlat = <<>>
    /\ idx = 0
    /\ applied = 0
    /\ step = 0
    /\ saves = <<>>
    /\ raised = None
    /\ ListIdle /\ XfaIdle /\ CallIdle

SpecXfa == InitXfa /\ [][NextXfa]_vars

----------------------------------------------------------------------------
(* What the caller gets from a file: detect_form_type
   (detect_form_type.py), read_xfa_packets and extract_template_xml
   (xfa_extract.py) called on their own, and the XFA fill. *)

detect_form_type(d) ==
    CASE ~d.exists -> "BrakPliku"
      [] ~d.readable -> "BladOdczytu"
      [] ~d.root -> "NiepoprawnyPDF"
      [] ~d.acro -> "BrakFormularza"
      [] d.XFA.kind # "none" -> "XFA"
      [] OTHER -> "AcroForm"

\* choose_packet(packets) without a preferred name, template being absent
choose_packet(pk) == IF pk.datasets.present THEN "datasets" ELSE "xfa"

TemplateTag == <<"t", "e", "m", "p", "l", "a", "t", "e">>

\* extract_template_from_xdp_bytes: root.find('.//{*}template') looks at the
\* descendants of the root; 0 for None
extract_template_from_xdp_bytes(xml, tag) ==
    IF ~xml.present THEN 0
    ELSE FirstOf(tree_descendants(xml, 1), {k \in 1..Len(xml.node) : xml.node[k].tag = tag})

\* extract_template_xml: the packet the text comes from and the element
\* that is returned, or the exception
extract_template_xml(d) ==
    LET r == read_xfa_packets(d)
        pk == r.packets
        source == IF pk.xfa.present THEN "xfa" ELSE choose_packet(pk)
        extracted == IF source = "xfa"
                     THEN extract_template_from_xdp_bytes(pk.xfa, "template")
                     ELSE extract_template_from_xdp_bytes(pk.datasets, TemplateTag)
    IN  IF r.raised # None
        THEN [raised |-> r.raised, msg |-> r.msg, packet |-> None, at |-> 0]
        ELSE IF pk.template.present
        THEN [raised |-> None, msg |-> "", packet |-> "template", at |-> 1]
        ELSE IF extracted = 0
        THEN [raised |-> "ValueError",
              msg |-> "Nie znaleziono elementu <template> w strumieniu XFA",
              packet |-> source, at |-> 0]
        ELSE [raised |-> None, msg |-> "", packet |-> source, at |-> extracted]

DetectFormType ==
    /\ pc = "main" /\ saves = <<>>
    /\ call' = [f |-> "detect_form_type"]
    /\ ret' = [f |-> "detect_form_type", out |-> detect_form_type(doc)]
    /\ pc' = "returned"
    /\ UNCHANGED <<data, idx, saves, raised, acroVars, listVars, xfaVars>>

CallReadXfaPackets ==
    /\ pc = "main" /\ saves = <<>>
    /\ call' = [f |-> "read_xfa_packets"]
    /\ ret' = [f |-> "read_xfa_packets", out |-> read_xfa_packets(doc)]
    /\ pc' = "returned"
    /\ UNCHANGED <<data, idx, saves, raised, acroVars, listVars, xfaVars>>

ExtractTemplateXml ==
    /\ pc = "main" /\ saves = <<>>
    /\ call' = [f |-> "extract_template_xml"]
    /\ ret' = [f |-> "extract_template_xml", out |-> extract_template_xml(doc)]
    /\ pc' = "returned"
    /\ UNCHANGED <<data, idx, saves, raised, acroVars, listVars, xfaVars>>

NextOutcome == DetectFormType \/ CallReadXfaPackets \/ ExtractTemplateXml \/ NextXfa

(* The files: no file, a file pikepdf cannot open, a PDF without catalog,
   without /AcroForm, with an AcroForm without /XFA, and the XFA documents:
   an array of packets (with or without template and datasets) or one
   stream holding an XDP (with or without a template element). *)

FileDoc(exists, readable, root, acro) ==
    [XfaDoc("none", NoXml, NoXml) EXCEPT !.exists = exists, !.readable = readable,
                                         !.root = root, !.acro = acro]

\* <xdp> around the elements of a template; <xdp/> when there is none
Xdp(t) ==
    [present |-> TRUE,
     node |-> <<TElem("xdp", <<>>, <<>>, IF t.present THEN <<2>> ELSE <<>>)>>
              \o [i \in 1..Len(t.node) |->
                     [t.node[i] EXCEPT !.kids = [j \in 1..Len(@) |-> @[j] + 1]]]]

OutcomeDocs ==
    {FileDoc(FALSE, FALSE, FALSE, FALSE), FileDoc(TRUE, FALSE, FALSE, FALSE),
     FileDoc(TRUE, TRUE, FALSE, FALSE), FileDoc(TRUE, TRUE, TRUE, FALSE),
     FileDoc(TRUE, TRUE, TRUE, TRUE)}
    \cup {XfaDoc("array", t, ds) : t \in XfaTemplates, ds \in XfaDatasets}
    \cup {XfaDoc("stream", Xdp(t), NoXml) : t \in XfaTemplates}

InitOutcome ==
    /\ \E d \in OutcomeDocs, b \in Batches(XfaKeys, XfaValues) : doc = d /\ data = b
    /\ V = AllUnset(doc)
    /\ AS = AllUnset(doc)
    /\ pc = "main"
    /\ fields = <<>>
    /\ prevFlat = <<>>
    /\ idx = 0
    /\ applied = 0
    /\ step = 0
    /\ saves = <<>>
    /\ raised = None
    /\ ListIdle /\ XfaIdle /\ CallIdle

SpecOutcome == InitOutcome /\ [][NextOutcome]_vars

----------------------------------------------------------------------------
(* _set_value_by_ref called on its own, again and again, on a data root *)

\* a data root with the given children, each without children of its own
DataRoot(children) ==
    [node |-> <<Elem(DataTag, TRUE, <<>>, <<>>, [i \in 1..Len(children) |-> i + 1])>>
               \o children,
     data_root |-> 1]

SetTrees ==
    {DataRoot(<<>>),
     DataRoot(<<Elem(<<"a">>, FALSE, <<>>, <<>>, <<>>)>>),
     DataRoot(<<Elem(<<"a">>, TRUE, <<>>, <<>>, <<>>)>>),
     DataRoot(<<Elem(<<"x">>, FALSE, <<"a">>, <<>>, <<>>)>>),
     DataRoot(<<Elem(<<"x">>, FALSE, <<"a">>, <<>>, <<>>),
                Elem(<<"a">>, FALSE, <<>>, <<>>, <<>>)>>),
     DataRoot(<<Elem(<<"c">>, FALSE, <<>>, <<"o", "l", "d">>, <<>>)>>)}

SetRefs ==
    {<<>>, <<".", ".">>, <<"/">>, <<" ">>, <<"[", "0", "]">>,
     <<"[", "0", "]", ".", "[", "1", "]">>,
     <<"a">>, <<"c">>, <<"a", ".", "b", "[", "0", "]", ".", "c">>,
     <<"a", "/", "b">>, <<".", "a", ".">>, <<"a", "[", "1", "]", "[", "2", "]">>,
     <<"a", ".", "[", "0", "]">>, <<"$", ".", "a">>, <<"a", ".", "$">>}

SetValues == {JStr(<<"v">>), JNull, JList(<<JStr(<<"A">>), JBool(TRUE)>>)}

InitSetValue ==
    /\ doc = NoFormDoc
    /\ V = AllUnset(doc)
    /\ AS = AllUnset(doc)
    /\ pc = "set"
    /\ fields = <<>>
    /\ prevFlat = <<>>
    /\ data = <<>>
    /\ idx = 0
    /\ applied = 0
    /\ step = 0
    /\ saves = <<>>
    /\ raised = None
    /\ ListIdle /\ CallIdle
    /\ packets = NoPackets
    /\ bindings = <<>>
    /\ som_paths = <<>>
    /\ datasets \in SetTrees

SetValueByRef ==
    /\ pc = "set"
    /\ \E ref \in SetRefs, value \in SetValues :
          LET r == set_value_by_ref(datasets, ref, value)
          IN  /\ Len(r.ds.node) <= MaxElems
              /\ datasets' = r.ds
              /\ call' = [f |-> "_set_value_by_ref", ref |-> ref, value |-> value]
              /\ ret' = [f |-> "_set_value_by_ref", trail |-> r.trail]
              /\ raised' = r.raised
              /\ pc' = IF r.raised = None THEN "set" ELSE "raised"
    /\ UNCHANGED <<data, idx, saves, acroVars, listVars, packets, bindings, som_paths>>

NextSetValue == SetValueByRef

SpecSetValue == InitSetValue /\ [][NextSetValue]_vars

----------------------------------------------------------------------------
(* The two inspectors called on their own: normalize_on_value on a value and
   a non-empty candidate list, get_appearance_names on a widget *)

InspectNames == {Yes, NameA, <<"/", "a">>, NameB}

APNames == {Off, Yes, NameA, NameB}

\* the lists of at most MaxNames names of S, without repeats
NameLists(S) ==
    UNION {{l \in [1..n -> S] : \A i, j \in 1..n : l[i] = l[j] => i = j} :
           n \in 0..MaxNames}

InspectValues ==
    {JBool(TRUE), JBool(FALSE), JNum(0), JNum(1), JNum(12), JNull, JDict,
     JList(<<>>), JList(<<JBool(TRUE)>>), JList(<<JStr(<<"A">>)>>),
     JStr(<<>>), JStr(<<" ">>), JStr(<<"A">>), JStr(<<"/", "A">>), JStr(<<"a", " ">>),
     JStr(<<" ", "/", "b">>), JStr(<<"/">>), JStr(<<"/", "/", "A">>),
     JStr(<<"f", "a", "l", "s", "e">>), JStr(<<"0">>), JStr(<<"O", "f", "f">>),
     JStr(<<"y", "e", "s">>), JStr(<<"o", "n">>)}

WidgetDoc(ap) ==
    [acro |-> TRUE, need |-> FALSE, Fields |-> <<>>,
     node |-> <<Node(<<>>, None, Widget, <<>>, NoFf, ap)>>]

InitInspect ==
    /\ doc = NoFormDoc
    /\ V = AllUnset(doc)
    /\ AS = AllUnset(doc)
    /\ pc = "inspect"
    /\ fields = <<>>
    /\ prevFlat = <<>>
    /\ data = <<>>
    /\ idx = 0
    /\ applied = 0
    /\ step = 0
    /\ saves = <<>>
    /\ raised = None
    /\ ListIdle /\ XfaIdle /\ CallIdle

CallNormalize ==
    /\ pc = "inspect"
    /\ \E val \in InspectValues, candidates \in NameLists(InspectNames) \ {<<>>} :
          /\ call' = [f |-> "normalize_on_value", val |-> val, candidates |-> candidates]
          /\ ret' = normalize_on_value(val, candidates)
    /\ pc' = "returned"
    /\ UNCHANGED <<data, idx, saves, raised, acroVars, listVars, xfaVars>>

CallAppearance ==
    /\ pc = "inspect"
    /\ \E ap \in {NoAP} \cup {APKeys(keys) : keys \in NameLists(APNames)} :
          /\ call' = [f |-> "get_appearance_names", ap |-> ap]
          /\ ret' = get_appearance_names(WidgetDoc(ap), 1)
    /\ pc' = "returned"
    /\ UNCHANGED <<data, idx, saves, raised, acroVars, listVars, xfaVars>>

NextInspect == CallNormalize \/ CallAppearance

SpecInspect == InitInspect /\ [][NextInspect]_vars

----------------------------------------------------------------------------
(* The fillable-field listing (extract_acroform.py): extract_acroform
   flattens the form and write_fillable_list writes the names of the
   fields a batch can fill. *)

ReadOnlyBit == 1

is_read_only_testing_radio_bit(ff) == HasBit(ff, RadioBit)

is_read_only(ff) == HasBit(ff, ReadOnlyBit)

NewLine == "\n"

\* "\n".join(lines)
RECURSIVE NewLineJoin(_)
NewLineJoin(ls) ==
    IF ls = <<>> THEN <<>>
    ELSE IF Len(ls) = 1 THEN ls[1]
    ELSE ls[1] \o <<NewLine>> \o NewLineJoin(Tail(ls))

\* the loop of write_fillable_list over fields[i..], lines being the list
\* collected so far
RECURSIVE collect_fillable(_, _, _, _)
collect_fillable(d, flat, i, ls) ==
    IF i > Len(flat) THEN ls
    ELSE LET full_name == flat[i].name
             field_obj == flat[i].field
             ft == d.node[field_obj].FT
             ff == get_field_flags(d, field_obj)
         IN  IF full_name = <<>> THEN collect_fillable(d, flat, i + 1, ls)
             ELSE IF is_read_only(ff) THEN collect_fillable(d, flat, i + 1, ls)
             ELSE IF ft = "/Btn" /\ is_push_button(ff)
                  THEN collect_fillable(d, flat, i + 1, ls)
             ELSE IF ft = "/Sig" THEN collect_fillable(d, flat, i + 1, ls)
             ELSE collect_fillable(d, flat, i + 1, Append(ls, full_name))

write_fillable_list(d, flat) ==
    LET ls == collect_fillable(d, flat, 1, <<>>)
    IN  [written |-> TRUE,
         lines |-> ls,
         content |-> IF ls # <<>> THEN NewLineJoin(ls) \o <<NewLine>> ELSE <<>>]

WriteFillableList ==
    /\ pc = "flat"
    /\ lines' = write_fillable_list(doc, fields)
    /\ pc' = "listed"
    /\ UNCHANGED <<acroVars, data, idx, saves, raised, xfaVars, callVars>>

NextExtract == Flatten \/ WriteFillableList

(* Documents for the listing: every tree of MaxNodes nodes, each node one of
   the kinds below: the field types, the flags values (absent, unparsable,
   ReadOnly, PushButton, Radio) and an unnamed field. *)

S_a == <<"a">>
S_b == <<"b">>

ListKind(t, ft, ff) == [T |-> t, FT |-> ft, Ff |-> ff]

ListKinds ==
    {ListKind(S_a, None, NoFf),
     ListKind(S_a, "/Tx", NoFf),
     ListKind(<<>>, "/Tx", NoFf),
     ListKind(S_b, "/Tx", BadFf),
     ListKind(S_a, "/Tx", IntFf(ReadOnlyBit)),
     ListKind(S_b, "/Ch", IntFf(RadioBit)),
     ListKind(S_b, "/Tx", IntFf(PushButtonBit)),
     ListKind(S_a, "/Btn", IntFf(PushButtonBit)),
     ListKind(S_b, "/Btn", IntFf(RadioBit)),
     ListKind(S_b, "/Btn", IntFf(PushButtonBit + ReadOnlyBit)),
     ListKind(S_a, "/Sig", NoFf)}

ListDoc(shape, k) ==
    [acro |-> TRUE, need |-> FALSE,
     Fields |-> shape[0],
     node |-> [n \in 1..(Len(k)) |->
                  Node(k[n].T, k[n].FT, None, shape[n], k[n].Ff, NoAP)]]

InitExtract ==
    /\ \E N \in 1..MaxNodes :
          \E p \in ParentFns(N) :
             LET shape == [m \in 0..N |-> ChildrenOf(p, N, m)]
             IN  \E k \in [1..N -> ListKinds] : doc = ListDoc(shape, k)
    /\ V = AllUnset(doc)
    /\ AS = AllUnset(doc)
    /\ pc = "tree"
    /\ fields = <<>>
    /\ prevFlat = <<>>
    /\ data = <<>>
    /\ idx = 0
    /\ applied = 0
    /\ step = 0
    /\ saves = <<>>
    /\ raised = None
    /\ ListIdle /\ XfaIdle /\ CallIdle

SpecExtract == InitExtract /\ [][NextExtract]_vars

----------------------------------------------------------------------------
(* Properties of the flattener (SpecFlatten) *)

Flattened == pc \in {"flat", "reflat"}

EntriesFor(flat, n) == Cardinality({i \in 1..Len(flat) : flat[i].field = n})

\* 0 for a node of /Fields, otherwise the node whose /Kids hold n
ParentOf(d, n) ==
    IF \E m \in 1..NumNodes(d) : Member(n, d.node[m].Kids)
    THEN CHOOSE m \in 1..NumNodes(d) : Member(n, d.node[m].Kids)
    ELSE 0

IndexIn(s, x) == CHOOSE i \in 1..Len(s) : s[i] = x

\* the positions, in /Fields and then in each /Kids, that lead to node n
RECURSIVE PosPath(_, _)
PosPath(d, n) ==
    IF ParentOf(d, n) = 0
    THEN <<IndexIn(d.Fields, n)>>
    ELSE Append(PosPath(d, ParentOf(d, n)), IndexIn(d.node[ParentOf(d, n)].Kids, n))

\* the local names from the root field down to node n
RECURSIVE PathNames(_, _)
PathNames(d, n) ==
    IF ParentOf(d, n) = 0
    THEN <<d.node[n].T>>
    ELSE Append(PathNames(d, ParentOf(d, n)), d.node[n].T)

NonEmptySegs(segs) == SelectSeq(segs, LAMBDA x : x # <<>>)

IsProperPrefix(p, q) == Len(p) < Len(q) /\ SubSeq(q, 1, Len(p)) = p

FirstDiffLess(p, q) ==
    \E k \in 1..Len(p) :
        /\ k <= Len(q)
        /\ SubSeq(p, 1, k - 1) = SubSeq(q, 1, k - 1)
        /\ p[k] < q[k]

\* p comes before q when a node is listed before its subtree
PreBefore(p, q) == IsProperPrefix(p, q) \/ FirstDiffLess(p, q)

\* p comes before q when a node is listed after its subtree
PostBefore(p, q) == IsProperPrefix(q, p) \/ FirstDiffLess(p, q)

NewLeaf == NumNodes(doc)

WithoutLeaf(flat) == SelectSeq(flat, LAMBDA e : e.field # NewLeaf)

NameAndField(flat) == [i \in 1..Len(flat) |-> <<flat[i].name, flat[i].field>>]

\* C5: the flattened list holds exactly one entry for each node that carries
\* a field type /FT, wherever the node is in the tree (a root field, a child
\* field, a kid marked as a widget), and no entry for a node without /FT.
C5_OneEntryPerTypedNode ==
    Flattened =>
        \A n \in 1..NumNodes(doc) :
            EntriesFor(fields, n) = IF doc.node[n].FT # None THEN 1 ELSE 0

\* C6: the fullName of every flattened entry is the "."-join of the non-empty
\* local names on the path from the root field down to the entry's node.
C6_FullNameIsDotJoin ==
    Flattened =>
        \A i \in 1..Len(fields) :
            fields[i].name = DotJoin(NonEmptySegs(PathNames(doc, fields[i].field)))

\* C6 witness: an entry three levels deep whose middle ancestor has an empty
\* local name, so that a segment is left out of the join.
C6_Witness ==
    /\ Flattened
    /\ \E i \in 1..Len(fields) :
          LET names == PathNames(doc, fields[i].field)
          IN  /\ Len(names) = 3
              /\ names[1] # <<>> /\ names[2] = <<>> /\ names[3] # <<>>
              /\ fields[i].name = names[1] \o <<".">> \o names[3]

----------------------------------------------------------------------------
(* Properties of the fill loop (Spec, SpecResolve) *)

\* the key and the value of the iteration that ran last
LastKey == data[idx].key
LastValue == data[idx].value

LocalName(i) == doc.node[fields[i].field].T

\* the entries a key matches, by the four ways of matching; an entry without
\* a name cannot be matched
FullExact(key) == {i \in 1..Len(fields) : fields[i].name # <<>> /\ fields[i].name = key}
LocalExact(key) == {i \in 1..Len(fields) : LocalName(i) # <<>> /\ LocalName(i) = key}
FullNoCase(key) ==
    {i \in 1..Len(fields) : fields[i].name # <<>> /\ Lower(fields[i].name) = Lower(key)}
LocalNoCase(key) ==
    {i \in 1..Len(fields) : LocalName(i) # <<>> /\ Lower(LocalName(i)) = Lower(key)}

FieldsOf(S) == {fields[i].field : i \in S}

\* the nodes the fixed precedence allows for a key; {0} when it resolves
\* to no field
Precedence(key) ==
    IF FullExact(key) # {} THEN FieldsOf(FullExact(key))
    ELSE IF Cardinality(LocalExact(key)) = 1 THEN FieldsOf(LocalExact(key))
    ELSE IF FullNoCase(key) # {} THEN FieldsOf(FullNoCase(key))
    ELSE IF Cardinality(LocalNoCase(key)) = 1 THEN FieldsOf(LocalNoCase(key))
    ELSE {0}

\* C1: a key that is no field's fullName but the local name /T of two or
\* more flattened fields is not resolved by the local-name step: the
\* iteration falls through to the case-insensitive steps; when exactly one
\* flattened field has that local name, the key resolves to it at the
\* local-name step and the value is applied to it.
C1_LocalNameStep ==
    (idx >= 1 /\ LastKey # <<>> /\ FullExact(LastKey) = {}) =>
        /\ Cardinality(LocalExact(LastKey)) >= 2 =>
              /\ step \in {0, 3, 4}
              /\ step = 0 => applied = 0
              /\ step = 3 => applied \in FieldsOf(FullNoCase(LastKey))
              /\ step = 4 => applied \in FieldsOf(LocalNoCase(LastKey))
        /\ Cardinality(LocalExact(LastKey)) = 1 =>
              /\ step = 2
              /\ {applied} = FieldsOf(LocalExact(LastKey))
              /\ doc.node[applied].FT = "/Tx" => V[applied] = PdfStr(PyStr(LastValue))

\* C1 witness: the last key is the local name of two fields and of no
\* fullName (fields x.B and y.B, key B), and the local-name step let it pass.
C1_Witness ==
    /\ idx >= 1
    /\ LastKey # <<>>
    /\ FullExact(LastKey) = {}
    /\ Cardinality(LocalExact(LastKey)) = 2
    /\ step = 0
    /\ \A n \in 1..NumNodes(doc) : V[n] = Unset

\* C2: the case-insensitive local-name step (step 4) resolves a key only
\* when exactly one flattened field has a local name equal to the key
\* ignoring case; with two or more such fields the key stays unresolved.
C2_StepFourOnlyWhenUnique ==
    (idx >= 1 /\ step = 4) => Cardinality(LocalNoCase(LastKey)) = 1

\* C3: the field the loop chooses for a key is the one the fixed precedence
\* gives: exact fullName, else unique exact local name, else fullName
\* ignoring case, else unique local name ignoring case, else none.
C3_FixedPrecedence ==
    idx >= 1 => applied \in Precedence(LastKey)

\* C4: an iteration whose key no resolution step matches (unmatched or
\* ambiguous) raises nothing, changes no /V and no /AS, and goes on to the
\* next key.
C4_UnresolvedKeyChangesNothing ==
    [][(pc = "loop" /\ idx < Len(data) /\ Precedence(data[idx + 1].key) = {0}) =>
          (V' = V /\ AS' = AS /\ raised' = None /\ pc' = "loop" /\ idx' = idx + 1)]_vars

IsButton(n) == n # 0 /\ doc.node[n].FT = "/Btn"
FlagsOf(n) == IF doc.node[n].Ff.k = "int" THEN doc.node[n].Ff.n ELSE 0
IsRadioField(n) ==
    IsButton(n) /\ (FlagsOf(n) \div RadioBit) % 2 = 1 /\ (FlagsOf(n) \div PushButtonBit) % 2 = 0
IsCheckboxField(n) ==
    IsButton(n) /\ (FlagsOf(n) \div RadioBit) % 2 = 0 /\ (FlagsOf(n) \div PushButtonBit) % 2 = 0

\* the widgets of a field: its kids marked as widgets
WidgetsOf(n) == {w \in Range(doc.node[n].Kids) : doc.node[w].Subtype = Widget}

\* C8: after a value that selects on-name X was applied to a radio field,
\* the stored value is X, exactly one widget of the group shows X and every
\* other widget shows Off.
C8_ExactlyOneRadioWidgetOn ==
    (idx >= 1 /\ IsRadioField(applied) /\ V[applied].k = "name" /\ V[applied].s # Off) =>
        /\ Cardinality({w \in WidgetsOf(applied) : AS[w] = V[applied]}) = 1
        /\ \A w \in WidgetsOf(applied) : AS[w] = V[applied] \/ AS[w] = PdfName(Off)

Truthy(value) ==
    \/ value.t = "bool" /\ value.b
    \/ value.t = "num" /\ value.n # 0
    \/ value.t = "str" /\ Strip(value.s) # <<>>

\* C9: applying to a checkbox field the truthy value that was applied to it
\* just before changes no stored value and no displayed state.
C9_CheckboxIdempotent ==
    [][(/\ pc = "loop" /\ idx >= 1 /\ idx' = idx + 1
        /\ step # 0 /\ step' # 0
        /\ IsCheckboxField(applied) /\ applied' = applied
        /\ Truthy(data[idx].value) /\ data[idx + 1].value = data[idx].value)
       => (V' = V /\ AS' = AS)]_vars

\* C9 witness: two keys in a row put the same truthy value on a checkbox
\* whose two widgets are now on.
C9_Witness ==
    /\ idx = 2
    /\ step # 0
    /\ IsCheckboxField(applied)
    /\ resolve(doc, fields, data[1].key).e.field = applied
    /\ Truthy(data[1].value) /\ data[2].value = data[1].value
    /\ V[applied].k = "name" /\ V[applied].s # Off
    /\ Cardinality(WidgetsOf(applied)) = 2
    /\ \A w \in WidgetsOf(applied) : AS[w].k = "name" /\ AS[w].s # Off

\* C10: filling the form name.first (text), agree (checkbox, on-name Yes,
\* off-name Off), submit (push button) with {"name.first": "Ann", "agree":
\* true} leaves name.first = "Ann", agree with value and displayed state Yes
\* and submit untouched, whether the checkbox's widget is a kid of the field
\* or the field dictionary itself.
C10_ScenarioFilled ==
    (doc.acro /\ doc.need /\ Len(doc.node) = 6 /\ doc.node[1].T = S_name
        /\ idx = 2 /\ Len(data) = 2) =>
        /\ V[2] = PdfStr(Ann)
        /\ V[4] = PdfName(Yes)
        /\ AS[IF doc.node[4].Subtype = Widget THEN 4 ELSE 5] = PdfName(Yes)
        /\ V[6] = Unset /\ AS[6] = Unset

----------------------------------------------------------------------------
(* Properties of the inspectors (SpecInspect) *)

DropSlash(s) == IF s # <<>> /\ s[1] = "/" THEN Tail(s) ELSE s

\* the string names the candidate, ignoring case and the leading "/"
NamesCandidate(str, c) == Lower(DropSlash(str)) = Lower(DropSlash(c))

Normalized == call.f = "normalize_on_value"

\* C11: normalize_on_value on a non-empty candidate list: a string that is
\* not empty after trimming yields a candidate, never none: a candidate it
\* names ignoring case and the leading "/" when there is one, otherwise the
\* first candidate, also for "false", "0" and "Off"; a string that is empty
\* after trimming, false, zero, null, a list and an object yield none; true
\* and a non-zero number yield the first candidate.
C11_NormalizeOnValue ==
    Normalized =>
        LET val == call.val
            c == call.candidates
            named == {i \in 1..Len(c) : NamesCandidate(Strip(val.s), c[i])}
        IN  CASE val.t = "str" /\ Strip(val.s) # <<>> ->
                    /\ ret.ok
                    /\ IF named # {} THEN \E i \in named : ret.s = c[i]
                       ELSE ret.s = c[1]
              [] val.t = "bool" /\ val.b -> ret = [ok |-> TRUE, s |-> c[1]]
              [] val.t = "num" /\ val.n # 0 -> ret = [ok |-> TRUE, s |-> c[1]]
              [] OTHER -> ~ret.ok

\* C11 witness: the string "Off" names no candidate and yields the first
\* candidate, and the string " /b" yields the second candidate /B.
C11_Witness ==
    /\ Normalized
    /\ \/ /\ call.val = JStr(<<"O", "f", "f">>)
          /\ Len(call.candidates) >= 2
          /\ ret = [ok |-> TRUE, s |-> call.candidates[1]]
       \/ /\ call.val = JStr(<<" ", "/", "b">>)
          /\ Len(call.candidates) >= 2
          /\ call.candidates[2] = NameB
          /\ ret = [ok |-> TRUE, s |-> NameB]

Inspected == call.f = "get_appearance_names"

RECURSIVE KeysOtherThanOff(_)
KeysOtherThanOff(keys) ==
    IF keys = <<>> THEN <<>>
    ELSE IF Head(keys) = <<"/", "O", "f", "f">> THEN KeysOtherThanOff(Tail(keys))
    ELSE <<Head(keys)>> \o KeysOtherThanOff(Tail(keys))

\* C12 as stated: the off-name is Off in every case; the on-names are the
\* keys of the normal-appearance dictionary other than Off, in key order;
\* the synthetic on-name Yes is returned only when the widget has no
\* appearance dictionary or the normal-appearance dictionary has no keys.
C12_SyntheticYesOnlyWithoutKeys ==
    Inspected =>
        /\ ret.off = <<"/", "O", "f", "f">>
        /\ ret.on = IF ~call.ap.present \/ call.ap.N = <<>>
                    THEN <<<<"/", "Y", "e", "s">>>>
                    ELSE KeysOtherThanOff(call.ap.N)

\* C12 amended: the off-name is Off in every case; when the
\* normal-appearance dictionary has a key other than Off the on-names are
\* exactly those keys, in key order; otherwise (no appearance dictionary, no
\* keys, or Off as the only key) the on-names are the synthetic [Yes].
C12_SyntheticYesWithoutOnKeys ==
    Inspected =>
        /\ ret.off = <<"/", "O", "f", "f">>
        /\ ret.on = IF ~call.ap.present \/ KeysOtherThanOff(call.ap.N) = <<>>
                    THEN <<<<"/", "Y", "e", "s">>>>
                    ELSE KeysOtherThanOff(call.ap.N)

\* C12 witness: keys B, Off, A give the on-names [B, A], and the single key
\* Off gives the synthetic [Yes].
C12_Witness ==
    /\ Inspected
    /\ \/ call.ap.N = <<NameB, Off, NameA>> /\ ret.on = <<NameB, NameA>>
       \/ call.ap.N = <<Off>> /\ ret.on = <<Yes>>

----------------------------------------------------------------------------
(* Properties of the datasets path resolver (SpecSetValue) *)

\* the usable segments of a ref: split on "." and "/", index suffixes
\* stripped, empty segments discarded
UsableSegments(ref) ==
    SelectSeq([i \in 1..Len(SplitRef(Strip(ref), <<>>)) |->
                  RemoveIndexes(SplitRef(Strip(ref), <<>>)[i])],
              LAMBDA seg : seg # <<>>)

IsNewElem(e) == e > Len(datasets.node)

\* the children of an element of the tree before the call whose local tag
\* is the segment
ChildrenTagged(parent, seg) ==
    IF IsNewElem(parent) THEN {}
    ELSE {k \in Range(datasets.node[parent].kids) : datasets.node[k].tag = seg}

\* C13: a call of _set_value_by_ref with a ref of n usable segments raises
\* nothing and goes from the data root through n elements, the i-th one a
\* child of the one before, with the i-th segment as its local tag: an
\* existing child with that local tag when there is one, a new child
\* otherwise; the last one gets the value's string form as text; the same
\* call made again creates no element.
C13_DescendsByLocalTag ==
    [][(pc = "set" /\ UsableSegments(call'.ref) # <<>>) =>
          LET segs == UsableSegments(call'.ref)
              trail == ret'.trail
              parent(i) == IF i = 1 THEN datasets.data_root ELSE trail[i - 1]
          IN  /\ raised' = None
              /\ Len(trail) = Len(segs)
              /\ \A i \in 1..Len(segs) :
                    /\ datasets'.node[trail[i]].tag = segs[i]
                    /\ trail[i] \in Range(datasets'.node[parent(i)].kids)
                    /\ IF ChildrenTagged(parent(i), segs[i]) # {}
                       THEN trail[i] \in ChildrenTagged(parent(i), segs[i])
                       ELSE IsNewElem(trail[i])
              /\ Len(datasets'.node) =
                     Len(datasets.node) + Cardinality({i \in 1..Len(segs) : IsNewElem(trail[i])})
              /\ datasets'.node[trail[Len(trail)]].text = text_of(call'.value)
              /\ call' = call => Len(datasets'.node) = Len(datasets.node)]_vars

\* C14: a call of _set_value_by_ref whose ref has no usable segment ("",
\* "..", "/", "[0]") leaves the data tree unchanged and raises nothing.
C14_NoUsableSegmentIsNoOp ==
    [][(pc = "set" /\ UsableSegments(call'.ref) = <<>>) =>
          (datasets' = datasets /\ raised' = None)]_vars

----------------------------------------------------------------------------
(* Properties of the template analysis (SpecAnalyze) *)

Analyzed == pc = "analyzed"

TNode(el) == packets.template.node[el]

TElems == 1..Len(packets.template.node)

\* the field and exclGroup elements under the root that have a name and a
\* bind with a ref
BoundAs(name) ==
    {el \in TElems \ {1} :
        /\ TNode(el).tag \in {"field", "exclGroup"}
        /\ TNode(el).name = name
        /\ find_bind(packets.template, el) # 0
        /\ TNode(find_bind(packets.template, el)).ref # <<>>}

\* C16: the bindings map holds, for every name, the ref of the first element
\* in document order among the field and exclGroup elements of that name that
\* have a bind ref; later ones are ignored, also across the two kinds.
C16_FirstBindingWins ==
    Analyzed =>
        \A i \in 1..Len(bindings) :
            bindings[i].v = TNode(find_bind(packets.template, First(BoundAs(bindings[i].k)))).ref

NamedFields == {el \in TElems \ {1} : TNode(el).tag = "field" /\ TNode(el).name # <<>>}

\* the ancestors of an element from the root down
RECURSIVE AncestorsFromRoot(_)
AncestorsFromRoot(el) ==
    IF getparent(packets.template, el) = 0 THEN <<>>
    ELSE Append(AncestorsFromRoot(getparent(packets.template, el)),
                getparent(packets.template, el))

SomOf(el) ==
    LET subforms == SelectSeq(AncestorsFromRoot(el),
                              LAMBDA a : TNode(a).tag = "subform" /\ TNode(a).name # <<>>)
    IN  DotJoin([i \in 1..Len(subforms) |-> TNode(subforms[i]).name] \o <<TNode(el).name>>)

\* C17: som_paths has one entry for every name of a named field element and
\* no other; the entry is the "."-join of the names of the named subform
\* ancestors, root first, and the field's own name, taken for the first
\* field of that name in document order, whether or not the field has a bind.
C17_SomPathOfFirstField ==
    Analyzed =>
        /\ {som_paths[i].k : i \in 1..Len(som_paths)} = {TNode(el).name : el \in NamedFields}
        /\ \A i, j \in 1..Len(som_paths) : som_paths[i].k = som_paths[j].k => i = j
        /\ \A i \in 1..Len(som_paths) :
              som_paths[i].v =
                  SomOf(First({el \in NamedFields : TNode(el).name = som_paths[i].k}))

\* C17 witness: a field name occurs twice, first under a named subform
\* inside the named root subform and then directly under the root; the path
\* of the first one, with two subform names, is kept.
C17_Witness ==
    /\ Analyzed
    /\ \E f1, f2 \in NamedFields :
          /\ f1 < f2
          /\ TNode(f1).name = TNode(f2).name
          /\ getparent(packets.template, f2) = 1
          /\ Len(AncestorsFromRoot(f1)) = 2
          /\ SomOf(f1) = <<"t", ".", "s", ".">> \o TNode(f1).name
          /\ SomOf(f2) = <<"t", ".">> \o TNode(f2).name
          /\ find_bind(packets.template, f1) = 0
          /\ find_bind(packets.template, f2) # 0
          /\ \E i \in 1..Len(som_paths) :
                som_paths[i].k = TNode(f1).name /\ som_paths[i].v = SomOf(f1)

----------------------------------------------------------------------------
(* Properties of the XFA fill (SpecXfa) *)

\* the element has a child with that local tag
ChildTagged(ds, el, tag) ==
    IF \E k \in Range(ds.node[el].kids) : ds.node[k].tag = tag
    THEN CHOOSE k \in Range(ds.node[el].kids) : ds.node[k].tag = tag
    ELSE 0

\* the tree holds the chain data > contact > email with that text
HasMailChain(ds, text) ==
    \E d \in 1..Len(ds.node) :
        /\ ds.node[d].tag = DataTag
        /\ \E c \in Range(ds.node[d].kids), e \in 1..Len(ds.node) :
              /\ ds.node[c].tag = <<"c", "o", "n", "t", "a", "c", "t">>
              /\ e \in Range(ds.node[c].kids)
              /\ ds.node[e].tag = <<"e", "m", "a", "i", "l">>
              /\ ds.node[e].text = text

\* the PDF of the scenario: the template binds field Email to
\* $.data.contact.email and the datasets are empty; the batch is
\* {"Email": "a@b.com"}
IsMailScenario ==
    /\ doc.XFA.kind # "none"
    /\ doc.XFA.template = EmailTemplate(ScenarioRef, TRUE)
    /\ data = <<[key |-> Email, value |-> JStr(Mail)]>>

\* C15: filling the scenario's PDF with {"Email": "a@b.com"} raises no
\* error, and the datasets tree that is saved holds the element chain
\* data > contact > email with the text a@b.com.
C15_MailScenarioFilled ==
    IsMailScenario =>
        /\ raised \notin {"ValueError", "FileNotFoundError"}
        /\ pc \in {"save", "done"} => HasMailChain(datasets, Mail)

\* C18: a save that fails with PermissionError is followed by exactly one
\* more save, to the alternate path and with the same content; there is no
\* third save; a failure of the alternate save and a failure of any other
\* kind are surfaced, the latter without a retry; and once a save was
\* attempted, nothing is resolved or mutated again: the retry repeats only
\* the save step.
C18_RetryRepeatsOnlyTheSave ==
    [][/\ Len(saves') <= 2
       /\ Len(saves') = 2 =>
             /\ saves'[1].outcome = "PermissionError"
             /\ saves'[1].path # saves'[2].path
             /\ saves'[2].content = saves'[1].content
       /\ (Len(saves') = 1 /\ saves'[1].outcome = "OSError") =>
             (pc' = "raised" /\ raised' = "OSError")
       /\ (Len(saves') = 2 /\ saves'[2].outcome # "ok") =>
             (pc' = "raised" /\ raised' = saves'[2].outcome)
       /\ saves # <<>> =>
             (datasets' = datasets /\ bindings' = bindings /\ som_paths' = som_paths)]_vars

\* the key is no template field name and no bind ref
Unmatched(key) ==
    /\ key \notin dict_keys(bindings)
    /\ key \notin dict_values(bindings)
    /\ key \notin dict_keys(som_paths)

\* C19: the iteration of the XFA fill for an input key that is no template
\* field name and no bind ref adds and changes no element of the datasets
\* tree and raises nothing, whatever the key is made of.
C19_UnmatchedKeyIgnored ==
    [][(pc = "by_path" /\ idx < Len(data) /\ Unmatched(data[idx + 1].key)) =>
          (datasets' = datasets /\ raised' = None /\ pc' = "by_path")]_vars

----------------------------------------------------------------------------
(* Properties of the fillable-field listing (SpecExtract) *)

Listed == pc = "listed"

TypeOf(e) == doc.node[e.field].FT

Fillable(e) ==
    /\ e.name # <<>>
    /\ FlagsOf(e.field) % 2 = 0
    /\ ~(TypeOf(e) = "/Btn" /\ (FlagsOf(e.field) \div PushButtonBit) % 2 = 1)
    /\ TypeOf(e) # "/Sig"

FillableNames ==
    LET kept == SelectSeq(fields, Fillable)
    IN  [i \in 1..Len(kept) |-> kept[i].name]

\* C20: the listing write_fillable_list writes holds, in flatten order and
\* one per line, the fullName of exactly the flattened entries that have a
\* non-empty fullName, have no ReadOnly flag (bit 0), are no push buttons
\* (type Btn with bit 16) and are no signature fields; a flags value that
\* cannot be parsed counts as 0, so such a field is listed.
C20_ListsExactlyTheFillable ==
    Listed =>
        /\ lines.lines = FillableNames
        /\ lines.content = Concat([i \in 1..Len(FillableNames) |->
                                      Append(FillableNames[i], NewLine)])
        /\ \A i \in 1..Len(fields) :
              (fields[i].name # <<>> /\ doc.node[fields[i].field].Ff.k = "bad"
                 /\ TypeOf(fields[i]) # "/Sig") => Member(fields[i].name, lines.lines)

\* a listing of two names, written from a form that also has a read-only
\* field, and one of the listed fields has a flags value that is no number
C20_Witness ==
    /\ Listed
    /\ Len(lines.lines) = 2
    /\ lines.lines[1] # lines.lines[2]
    /\ \E i \in 1..Len(fields) :
          fields[i].name # <<>> /\ doc.node[fields[i].field].Ff = IntFf(ReadOnlyBit)
    /\ \E i \in 1..Len(fields) :
          doc.node[fields[i].field].Ff = BadFf /\ Member(fields[i].name, lines.lines)

----------------------------------------------------------------------------
(* Properties of the button states over a whole fill (Spec) *)

IsPushButtonField(n) == IsButton(n) /\ (FlagsOf(n) \div PushButtonBit) % 2 = 1

\* the on-names of a widget: the keys of its /AP /N other than /Off, and
\* /Yes when there is none
OwnOnNames(w) ==
    LET ap == doc.node[w].AP
        keys == IF ap.present THEN {k \in Range(ap.N) : k # Off} ELSE {}
    IN  IF keys = {} THEN {Yes} ELSE keys

OnNamesOfField(n) == UNION {OwnOnNames(w) : w \in WidgetsOf(n)}

OffOrOneOf(x, names) == x = PdfName(Off) \/ (x.k = "name" /\ x.s \in names)

\* C22: whatever is applied to a button field that is no push button, and
\* however often, every widget of it shows Off or one of its own on-names
\* and the field's value is Off or an on-name of one of its widgets (a
\* field nothing was applied to yet has no value); no apply changes the
\* value of a push button or the state of its widgets.
C22_ButtonStatesStayLegal ==
    [][\A n \in 1..NumNodes(doc) :
          IsButton(n) =>
             IF IsPushButtonField(n)
             THEN V'[n] = V[n] /\ \A w \in WidgetsOf(n) : AS'[w] = AS[w]
             ELSE /\ V'[n] = Unset \/ OffOrOneOf(V'[n], OnNamesOfField(n))
                  /\ \A w \in WidgetsOf(n) :
                        AS'[w] = Unset \/ OffOrOneOf(AS'[w], OwnOnNames(w))
                  /\ (idx' = idx + 1 /\ step' # 0 /\ applied' = n) =>
                        /\ OffOrOneOf(V'[n], OnNamesOfField(n))
                        /\ \A w \in WidgetsOf(n) : OffOrOneOf(AS'[w], OwnOnNames(w))]_vars

\* a radio field of two widgets with different on-names after two applies:
\* the value is an on-name, one widget shows it, the other shows Off
C22_Witness ==
    /\ idx = 2
    /\ step # 0
    /\ IsRadioField(applied)
    /\ resolve(doc, fields, data[1].key).e.field = applied
    /\ Cardinality(WidgetsOf(applied)) = 2
    /\ V[applied].k = "name" /\ V[applied].s # Off
    /\ \E w1, w2 \in WidgetsOf(applied) :
          /\ AS[w1] = V[applied]
          /\ AS[w2] = PdfName(Off)
          /\ V[applied].s \notin OwnOnNames(w2)

----------------------------------------------------------------------------
(* Properties of the outcomes (SpecOutcome) *)

HasTemplate(d) ==
    IF d.XFA.kind = "array" THEN d.XFA.template.present
    ELSE extract_template_from_xdp_bytes(d.XFA.template, "template") # 0

Situation(d) ==
    CASE ~d.exists -> "missing file"
      [] ~d.readable -> "cannot be read"
      [] ~d.root -> "no catalog"
      [] ~d.acro -> "no AcroForm"
      [] d.XFA.kind = "none" -> "no XFA"
      [] ~HasTemplate(d) -> "no template"
      [] OTHER -> "complete"

Absences ==
    {"missing file", "cannot be read", "no catalog", "no AcroForm", "no XFA", "no template"}

\* the files in another situation than the input
OtherFiles == {d \in OutcomeDocs : Situation(d) # Situation(doc)}

Report(r) == <<r.raised, r.msg>>

FillEnded == call = NoCall /\ pc \in {"done", "raised"}

\* C21: a missing file, a document without catalog, without AcroForm, an
\* AcroForm without XFA, an XFA without locatable template and a file that
\* cannot be read each give the caller an outcome that no file in another
\* situation gives, in detect_form_type, read_xfa_packets,
\* extract_template_xml and fill_xfa_with_json; in particular none is the
\* outcome of a read failure.
C21_AbsenceHasItsOwnOutcome ==
    Situation(doc) \in Absences =>
        /\ (pc = "returned" /\ ret.f = "detect_form_type") =>
              \A d \in OtherFiles : detect_form_type(d) # ret.out
        /\ (pc = "returned" /\ ret.f = "read_xfa_packets") =>
              \A d \in OtherFiles : read_xfa_packets(d) # ret.out
        /\ (pc = "returned" /\ ret.f = "extract_template_xml") =>
              \A d \in OtherFiles : extract_template_xml(d) # ret.out
        /\ FillEnded =>
              /\ pc = "raised" /\ ret.f = "fill_xfa_with_json"
              /\ \A d \in OtherFiles : Report(packets_for_fill(d)) # Report(ret)

====
